---------------------------- MODULE Spec2Model ----------------------------
(***************************************************************************)
(* Model of docs/plot_latency.py: parse_logfile, generate_plot and the     *)
(* __main__ block.                                                         *)
(*                                                                         *)
(* Text is modelled as sequences of one-character strings.  Floating-point *)
(* values are modelled as exact decimal fixed-point numbers with           *)
(* FracDigits fractional digits, extended with the IEEE special values     *)
(* nan, +inf and -inf that float() accepts; rounding error of binary       *)
(* doubles is not modelled.                                                *)
(***************************************************************************)
EXTENDS Integers, Sequences, FiniteSets, TLC

(***************************************************************************)
(* Bounds of the model and constants of the program                        *)
(***************************************************************************)
MaxData == 3
FracDigits == 2
HeaderLines == 6
UsecPerSec == 1000000

RECURSIVE Pow10(_)
Pow10(n) == IF n = 0 THEN 1 ELSE 10 * Pow10(n - 1)

\* number of fixed-point units in 1.0
Scale == Pow10(FracDigits)

NL == "\n"

(***************************************************************************)
(* Floating-point values                                                   *)
(***************************************************************************)
Fin(n) == [k |-> "fin", v |-> n]
NaN == [k |-> "nan", v |-> 0]
Inf(s) == [k |-> "inf", v |-> s]
\* result of a conversion that raises ValueError
Invalid == [k |-> "err", v |-> 0]

FNeg(a) == IF a.k = "nan" THEN NaN ELSE [k |-> a.k, v |-> 0 - a.v]

FAdd(a, b) ==
    IF a.k = "nan" \/ b.k = "nan" THEN NaN
    ELSE IF a.k = "inf" /\ b.k = "inf" THEN (IF a.v = b.v THEN a ELSE NaN)
    ELSE IF a.k = "inf" THEN a
    ELSE IF b.k = "inf" THEN b
    ELSE Fin(a.v + b.v)

FSub(a, b) == FAdd(a, FNeg(b))

\* float * integer
FMulInt(a, n) ==
    IF a.k = "nan" THEN NaN
    ELSE IF a.k = "inf"
         THEN (IF n = 0 THEN NaN ELSE IF n > 0 THEN a ELSE FNeg(a))
    ELSE Fin(a.v * n)

FAbs(a) ==
    IF a.k = "nan" THEN NaN
    ELSE IF a.k = "inf" THEN Inf(1)
    ELSE Fin(IF a.v < 0 THEN 0 - a.v ELSE a.v)

\* a >= 0 as Python evaluates it (False for nan)
FGeZero(a) == \/ a.k = "fin" /\ a.v >= 0
              \/ a.k = "inf" /\ a.v = 1

FIsZero(a) == a.k = "fin" /\ a.v = 0

FIsFinite(a) == a.k = "fin"

(***************************************************************************)
(* float(s): string to floating point                                      *)
(***************************************************************************)
Digits == {"0", "1", "2", "3", "4", "5", "6", "7", "8", "9"}

DigitVal(c) ==
    CASE c = "0" -> 0 [] c = "1" -> 1 [] c = "2" -> 2 [] c = "3" -> 3
      [] c = "4" -> 4 [] c = "5" -> 5 [] c = "6" -> 6 [] c = "7" -> 7
      [] c = "8" -> 8 [] c = "9" -> 9

RECURSIVE LStrip(_)
LStrip(s) == IF s # <<>> /\ Head(s) = " " THEN LStrip(Tail(s)) ELSE s

RECURSIVE RStrip(_)
RStrip(s) == IF s # <<>> /\ s[Len(s)] = " "
             THEN RStrip(SubSeq(s, 1, Len(s) - 1)) ELSE s

Strip(s) == RStrip(LStrip(s))

\* value of a digit string read as a decimal integer
RECURSIVE DigitsVal(_)
DigitsVal(s) == IF s = <<>> THEN 0
                ELSE DigitsVal(SubSeq(s, 1, Len(s) - 1)) * 10 + DigitVal(s[Len(s)])

AllDigits(s) == \A j \in 1..Len(s) : s[j] \in Digits

\* position of the first sep in s, or 0
RECURSIVE FindFrom(_, _, _)
FindFrom(s, sep, j) ==
    IF j > Len(s) THEN 0 ELSE IF s[j] = sep THEN j ELSE FindFrom(s, sep, j + 1)

FindChar(s, sep) == FindFrom(s, sep, 1)

\* unsigned decimal literal: digits, optional ".", digits; at least one digit
Decimal(body) ==
    LET d == FindChar(body, ".")
        ip == IF d = 0 THEN body ELSE SubSeq(body, 1, d - 1)
        fp == IF d = 0 THEN <<>> ELSE SubSeq(body, d + 1, Len(body))
    IN IF AllDigits(ip) /\ AllDigits(fp) /\ Len(ip) + Len(fp) >= 1
       THEN Fin(DigitsVal(ip) * Scale + (DigitsVal(fp) * Scale) \div Pow10(Len(fp)))
       ELSE Invalid

Float(str) ==
    LET s == Strip(str)
        signed == s # <<>> /\ Head(s) \in {"+", "-"}
        sign == IF signed /\ Head(s) = "-" THEN 0 - 1 ELSE 1
        body == IF signed THEN Tail(s) ELSE s
    IN IF body = <<"i", "n", "f">> THEN Inf(sign)
       ELSE IF body = <<"n", "a", "n">> THEN NaN
       ELSE LET r == Decimal(body)
            IN IF r.k = "err" THEN Invalid ELSE Fin(sign * r.v)

(***************************************************************************)
(* str.split(sep, maxsplit) and str.splitlines()                           *)
(***************************************************************************)
RECURSIVE Split(_, _, _)
Split(s, sep, maxsplit) ==
    LET p == FindChar(s, sep)
    IN IF maxsplit = 0 \/ p = 0 THEN <<s>>
       ELSE <<SubSeq(s, 1, p - 1)>> \o Split(SubSeq(s, p + 1, Len(s)), sep, maxsplit - 1)

RECURSIVE SplitLines(_)
SplitLines(s) ==
    LET p == FindChar(s, NL)
    IN IF s = <<>> THEN <<>>
       ELSE IF p = 0 THEN <<s>>
       ELSE <<SubSeq(s, 1, p - 1)>> \o SplitLines(SubSeq(s, p + 1, Len(s)))

(***************************************************************************)
(* Inputs: command line, log file content                                  *)
(***************************************************************************)
RECURSIVE Join(_, _)
Join(lines, sep) ==
    IF lines = <<>> THEN <<>>
    ELSE IF Len(lines) = 1 THEN lines[1]
    ELSE lines[1] \o <<sep>> \o Join(Tail(lines), sep)

Prog == <<"p">>

\* values given as argv[1]
CycleArgs == { <<"0", ".", "1">>, <<"0">>, <<"-", "0", ".", "1">>,
               <<"n", "a", "n">>, <<"x">> }

Argvs == {<<Prog>>} \cup {<<Prog, c>> : c \in CycleArgs}

\* lines of the data section
Lines == { <<"1", "0", ".", "0">>, <<"1", "0", ".", "1">>,
           <<"1", "0", ".", "2">>, <<"1", "0", ".", "2", "5">>,
           <<"i", "n", "f">>, <<"x">>, <<>> }

Headers == { [j \in 1..HeaderLines |-> <<"h">>],
             [j \in 1..HeaderLines |-> IF j = 1 THEN <<>> ELSE <<"7", ".", "5">>] }

Sections == UNION {[1..n -> Lines] : n \in 0..MaxData}

\* a whole header followed by a data section, or a file that ends in the header
FileContents ==
    {Join(h \o d, NL) : h \in Headers, d \in Sections}
      \cup {Join(SubSeq(h, 1, n), NL) : h \in Headers, n \in 0..(HeaderLines - 1)}

(***************************************************************************)
(* State                                                                   *)
(***************************************************************************)
VARIABLES
    argv,        \* sys.argv
    logfile,     \* ../src/timestamps.txt: [readable, content]
    png,         \* latency.png: [written, x, y]
    pc,          \* position of the program
    err,         \* exception that ended the run, or "none"
    cycle_time,  \* parse_logfile argument
    data,        \* parse_logfile local: text read from the file
    timestamps,  \* parse_logfile local: list of strings
    latency,     \* parse_logfile local: list of floats
    i,           \* parse_logfile local: loop index
    x,           \* parse_logfile local: array
    y,           \* parse_logfile local: array
    ret,         \* value returned by parse_logfile: [ok, x, y]
    figure,      \* generate_plot local: bars drawn
    saves,       \* number of times latency.png was written
    calls,       \* number of calls of parse_logfile started
    prev         \* outcome of the previous call of parse_logfile

vars == <<argv, logfile, png, pc, err, cycle_time, data, timestamps, latency,
          i, x, y, ret, figure, saves, calls, prev>>

locals == <<data, timestamps, latency, i, x, y>>

NoArrays == [ok |-> FALSE, x |-> <<>>, y |-> <<>>]
OldPng == [written |-> FALSE, x |-> <<>>, y |-> <<>>]
NoOutcome == [err |-> "none", ok |-> FALSE, x |-> <<>>, y |-> <<>>]

Init ==
    /\ argv \in Argvs
    /\ logfile \in {[readable |-> FALSE, content |-> <<>>]}
                     \cup {[readable |-> TRUE, content |-> c] : c \in FileContents}
    /\ png = OldPng
    /\ pc = "main"
    /\ err = "none"
    /\ cycle_time = <<>>
    /\ data = <<>>
    /\ timestamps = <<>>
    /\ latency = <<>>
    /\ i = 0
    /\ x = <<>>
    /\ y = <<>>
    /\ ret = NoArrays
    /\ figure = NoArrays
    /\ saves = 0
    /\ calls = 0
    /\ prev = NoOutcome

\* an unhandled exception ends the process
Raise(e) == pc' = "failed" /\ err' = e

(***************************************************************************)
(* __main__                                                                *)
(***************************************************************************)
\* Main, with a default used when the argument is missing
MainDefaultCycle ==
    /\ pc = "main"
    /\ cycle_time' = IF Len(argv) < 2 THEN <<"0", ".", "1">> ELSE argv[2]
    /\ calls' = calls + 1
    /\ pc' = "open"
    /\ UNCHANGED <<argv, logfile, png, err, locals, ret, figure, saves, prev>>

Main ==
    /\ pc = "main"
    /\ IF Len(argv) < 2
       THEN /\ Raise("IndexError")
            /\ UNCHANGED <<cycle_time, calls>>
       ELSE /\ cycle_time' = argv[2]
            /\ calls' = calls + 1
            /\ pc' = "open"
            /\ err' = err
    /\ UNCHANGED <<argv, logfile, png, locals, ret, figure, saves, prev>>

(***************************************************************************)
(* parse_logfile                                                           *)
(***************************************************************************)
Open ==
    /\ pc = "open"
    /\ IF ~logfile.readable
       THEN Raise("IOError") /\ data' = data
       ELSE data' = logfile.content /\ pc' = "split" /\ err' = err
    /\ UNCHANGED <<argv, logfile, png, cycle_time, timestamps, latency, i, x, y,
                   ret, figure, saves, calls, prev>>

\* SplitData, with the header taken to be one line shorter
SplitDataShortHeader ==
    /\ pc = "split"
    /\ LET parts == Split(data, NL, HeaderLines - 1)
       IN IF Len(parts) < HeaderLines
          THEN Raise("IndexError") /\ UNCHANGED <<timestamps, latency, i>>
          ELSE /\ timestamps' = SplitLines(parts[HeaderLines])
               /\ latency' = <<>>
               /\ i' = 1
               /\ pc' = "loop"
               /\ err' = err
    /\ UNCHANGED <<argv, logfile, png, cycle_time, data, x, y, ret, figure, saves,
                   calls, prev>>

\* SplitData, with the latency list kept from one call to the next
SplitDataKeepLatency ==
    /\ pc = "split"
    /\ LET parts == Split(data, NL, HeaderLines)
       IN IF Len(parts) < HeaderLines + 1
          THEN Raise("IndexError") /\ UNCHANGED <<timestamps, latency, i>>
          ELSE /\ timestamps' = SplitLines(parts[HeaderLines + 1])
               /\ latency' = latency
               /\ i' = 1
               /\ pc' = "loop"
               /\ err' = err
    /\ UNCHANGED <<argv, logfile, png, cycle_time, data, x, y, ret, figure, saves,
                   calls, prev>>

SplitData ==
    /\ pc = "split"
    /\ LET parts == Split(data, NL, HeaderLines)
       IN IF Len(parts) < HeaderLines + 1
          THEN Raise("IndexError") /\ UNCHANGED <<timestamps, latency, i>>
          ELSE /\ timestamps' = SplitLines(parts[HeaderLines + 1])
               /\ latency' = <<>>
               /\ i' = 1
               /\ pc' = "loop"
               /\ err' = err
    /\ UNCHANGED <<argv, logfile, png, cycle_time, data, x, y, ret, figure, saves,
                   calls, prev>>

\* LoopBody, with the sample counted from the index it has once the reference is dropped
LoopBodyDroppedIndex ==
    /\ pc = "loop"
    /\ i < Len(timestamps)
    /\ LET actual_timestamp == Float(timestamps[i + 1])
           reference == Float(timestamps[1])
           cycle == Float(cycle_time)
           expected_timestamp == FAdd(reference, FMulInt(cycle, (i - 1)))
       IN IF actual_timestamp.k = "err" \/ reference.k = "err" \/ cycle.k = "err"
          THEN Raise("ValueError") /\ UNCHANGED <<latency, i>>
          ELSE /\ latency' = Append(latency, FAbs(FSub(actual_timestamp, expected_timestamp)))
               /\ i' = i + 1
               /\ pc' = pc
               /\ err' = err
    /\ UNCHANGED <<argv, logfile, png, cycle_time, data, timestamps, x, y, ret,
                   figure, saves, calls, prev>>

\* LoopBody, with the preceding sample taken as the reference
LoopBodyPrevRef ==
    /\ pc = "loop"
    /\ i < Len(timestamps)
    /\ LET actual_timestamp == Float(timestamps[i + 1])
           reference == Float(timestamps[i])
           cycle == Float(cycle_time)
           expected_timestamp == FAdd(reference, FMulInt(cycle, i))
       IN IF actual_timestamp.k = "err" \/ reference.k = "err" \/ cycle.k = "err"
          THEN Raise("ValueError") /\ UNCHANGED <<latency, i>>
          ELSE /\ latency' = Append(latency, FAbs(FSub(actual_timestamp, expected_timestamp)))
               /\ i' = i + 1
               /\ pc' = pc
               /\ err' = err
    /\ UNCHANGED <<argv, logfile, png, cycle_time, data, timestamps, x, y, ret,
                   figure, saves, calls, prev>>

\* LoopBody, with the signed difference appended
LoopBodyNoAbs ==
    /\ pc = "loop"
    /\ i < Len(timestamps)
    /\ LET actual_timestamp == Float(timestamps[i + 1])
           reference == Float(timestamps[1])
           cycle == Float(cycle_time)
           expected_timestamp == FAdd(reference, FMulInt(cycle, i))
       IN IF actual_timestamp.k = "err" \/ reference.k = "err" \/ cycle.k = "err"
          THEN Raise("ValueError") /\ UNCHANGED <<latency, i>>
          ELSE /\ latency' = Append(latency, FSub(actual_timestamp, expected_timestamp))
               /\ i' = i + 1
               /\ pc' = pc
               /\ err' = err
    /\ UNCHANGED <<argv, logfile, png, cycle_time, data, timestamps, x, y, ret,
                   figure, saves, calls, prev>>

\* LoopBody, with an unparsable reference read as 0.0
LoopBodyRefUnchecked ==
    /\ pc = "loop"
    /\ i < Len(timestamps)
    /\ LET actual_timestamp == Float(timestamps[i + 1])
           reference == (IF Float(timestamps[1]).k = "err" THEN Fin(0) ELSE Float(timestamps[1]))
           cycle == Float(cycle_time)
           expected_timestamp == FAdd(reference, FMulInt(cycle, i))
       IN IF actual_timestamp.k = "err" \/ FALSE \/ cycle.k = "err"
          THEN Raise("ValueError") /\ UNCHANGED <<latency, i>>
          ELSE /\ latency' = Append(latency, FAbs(FSub(actual_timestamp, expected_timestamp)))
               /\ i' = i + 1
               /\ pc' = pc
               /\ err' = err
    /\ UNCHANGED <<argv, logfile, png, cycle_time, data, timestamps, x, y, ret,
                   figure, saves, calls, prev>>

LoopBody ==
    /\ pc = "loop"
    /\ i < Len(timestamps)
    /\ LET actual_timestamp == Float(timestamps[i + 1])
           reference == Float(timestamps[1])
           cycle == Float(cycle_time)
           expected_timestamp == FAdd(reference, FMulInt(cycle, i))
       IN IF actual_timestamp.k = "err" \/ reference.k = "err" \/ cycle.k = "err"
          THEN Raise("ValueError") /\ UNCHANGED <<latency, i>>
          ELSE /\ latency' = Append(latency, FAbs(FSub(actual_timestamp, expected_timestamp)))
               /\ i' = i + 1
               /\ pc' = pc
               /\ err' = err
    /\ UNCHANGED <<argv, logfile, png, cycle_time, data, timestamps, x, y, ret,
                   figure, saves, calls, prev>>

\* Pop, with nothing done when the list is empty
PopEmptyOk ==
    /\ pc = "loop"
    /\ i >= Len(timestamps)
    /\ timestamps' = IF timestamps = <<>> THEN timestamps ELSE Tail(timestamps)
    /\ pc' = "asarray"
    /\ UNCHANGED <<argv, logfile, png, err, cycle_time, data, latency, i, x, y, ret,
                   figure, saves, calls, prev>>

Pop ==
    /\ pc = "loop"
    /\ i >= Len(timestamps)
    /\ IF timestamps = <<>>
       THEN Raise("IndexError") /\ timestamps' = timestamps
       ELSE timestamps' = Tail(timestamps) /\ pc' = "asarray" /\ err' = err
    /\ UNCHANGED <<argv, logfile, png, cycle_time, data, latency, i, x, y, ret,
                   figure, saves, calls, prev>>

AsArray ==
    /\ pc = "asarray"
    /\ LET xs == [j \in 1..Len(timestamps) |-> Float(timestamps[j])]
       IN IF \E j \in 1..Len(xs) : xs[j].k = "err"
          THEN Raise("ValueError") /\ UNCHANGED <<x, y>>
          ELSE x' = xs /\ y' = latency /\ pc' = "normalize" /\ err' = err
    /\ UNCHANGED <<argv, logfile, png, cycle_time, data, timestamps, latency, i,
                   ret, figure, saves, calls, prev>>

\* Normalize, with an empty array left as it is
NormalizeEmptyOk ==
    /\ pc = "normalize"
    /\ x' = [j \in 1..Len(x) |-> FSub(x[j], x[1])]
    /\ pc' = "scale"
    /\ UNCHANGED <<argv, logfile, png, err, cycle_time, data, timestamps, latency, i,
                   y, ret, figure, saves, calls, prev>>

\* Normalize, with the last element subtracted instead of the first
NormalizeByLast ==
    /\ pc = "normalize"
    /\ IF x = <<>>
       THEN Raise("IndexError") /\ x' = x
       ELSE /\ x' = [j \in 1..Len(x) |-> FSub(x[j], x[Len(x)])]
            /\ pc' = "scale"
            /\ err' = err
    /\ UNCHANGED <<argv, logfile, png, cycle_time, data, timestamps, latency, i,
                   y, ret, figure, saves, calls, prev>>

Normalize ==
    /\ pc = "normalize"
    /\ IF x = <<>>
       THEN Raise("IndexError") /\ x' = x
       ELSE /\ x' = [j \in 1..Len(x) |-> FSub(x[j], x[1])]
            /\ pc' = "scale"
            /\ err' = err
    /\ UNCHANGED <<argv, logfile, png, cycle_time, data, timestamps, latency, i,
                   y, ret, figure, saves, calls, prev>>

ScaleUsec ==
    /\ pc = "scale"
    /\ y' = [j \in 1..Len(y) |-> FMulInt(y[j], UsecPerSec)]
    /\ pc' = "return"
    /\ UNCHANGED <<argv, logfile, png, err, cycle_time, data, timestamps, latency,
                   i, x, ret, figure, saves, calls, prev>>

Return ==
    /\ pc = "return"
    /\ ret' = [ok |-> TRUE, x |-> x, y |-> y]
    /\ pc' = "plot"
    /\ UNCHANGED <<argv, logfile, png, err, cycle_time, locals, figure, saves,
                   calls, prev>>

(***************************************************************************)
(* generate_plot                                                           *)
(***************************************************************************)
DrawBars ==
    /\ pc = "plot"
    /\ figure' = [ok |-> TRUE, x |-> ret.x, y |-> ret.y]
    /\ pc' = "save"
    /\ UNCHANGED <<argv, logfile, png, err, cycle_time, locals, ret, saves, calls,
                   prev>>

SaveFig ==
    /\ pc = "save"
    /\ png' = [written |-> TRUE, x |-> figure.x, y |-> figure.y]
    /\ saves' = saves + 1
    /\ pc' = "done"
    /\ UNCHANGED <<argv, logfile, err, cycle_time, locals, ret, figure, calls, prev>>

Next ==
    \/ Main
    \/ Open
    \/ SplitData
    \/ LoopBody
    \/ Pop
    \/ AsArray
    \/ Normalize
    \/ ScaleUsec
    \/ Return
    \/ DrawBars
    \/ SaveFig

Spec == Init /\ [][Next]_vars

(***************************************************************************)
(* A second call of parse_logfile with the same arguments.  The locals of   *)
(* the new call hold whatever the previous call left until the code        *)
(* assigns them.                                                           *)
(***************************************************************************)
Outcome == [err |-> err, ok |-> ret.ok, x |-> ret.x, y |-> ret.y]

CallAgain ==
    /\ calls = 1
    /\ pc = "plot" \/ (pc = "failed" /\ Len(argv) >= 2)
    /\ prev' = Outcome
    /\ calls' = calls + 1
    /\ pc' = "open"
    /\ err' = "none"
    /\ ret' = NoArrays
    /\ UNCHANGED <<argv, logfile, png, cycle_time, locals, figure, saves>>

NextTwice == Next \/ CallAgain

SpecTwice == Init /\ [][NextTwice]_vars

(***************************************************************************)
(* The input, read independently of the run                                *)
(***************************************************************************)
\* all lines of the file
AllLines == SplitLines(logfile.content)

\* the lines after the header
DataLines == SubSeq(AllLines, HeaderLines + 1, Len(AllLines))

N == Len(DataLines)

\* timestamp of sample idx (0-based)
Actual(idx) == Float(DataLines[idx + 1])

Cycle == Float(argv[2])

IsNumeric(str) == Float(str).k # "err"

\* parse_logfile is called and the file can be read
Called == Len(argv) >= 2 /\ logfile.readable

ValidInput ==
    /\ Called
    /\ N >= 2
    /\ \A j \in 1..N : IsNumeric(DataLines[j])
    /\ IsNumeric(argv[2])

\* a == b as Python evaluates it (False when either is nan)
FEq(a, b) == a.k # "nan" /\ b.k # "nan" /\ a = b

Expected(idx) == FAdd(Actual(0), FMulInt(Cycle, idx))

ParsePcs == {"open", "split", "loop", "asarray", "normalize", "scale", "return"}

Returned == ret.ok

\* the run has left the loop of parse_logfile, or has failed
LoopLeft == pc \notin {"main", "open", "split", "loop"}

(***************************************************************************)
(* C1: for a file with 6 header lines and N >= 2 numeric timestamp lines   *)
(* and a numeric cycle_time, parse_logfile does not fail and returns x and *)
(* y with len(x) = len(y) = N - 1, whatever the header holds.              *)
(***************************************************************************)
C1_Lengths ==
    (LoopLeft /\ ValidInput) =>
        /\ pc # "failed"
        /\ Returned => Len(ret.x) = N - 1 /\ Len(ret.y) = N - 1

C1_Witness ==
    /\ Returned
    /\ ValidInput
    /\ N = 3
    /\ AllLines[HeaderLines] = <<"7", ".", "5">>
    /\ Len(ret.x) = 2
    /\ Len(ret.y) = 2

(***************************************************************************)
(* C2: for valid input and every k in 0..N-2,                              *)
(* y[k] = |actual[k+1] - (actual[0] + cycle_time * (k+1))| * 1000000; the  *)
(* data 10.0, 10.1, 10.25 with cycle_time 0.1 gives y = [0, 50000].        *)
(***************************************************************************)
ExampleData == << <<"1", "0", ".", "0">>, <<"1", "0", ".", "1">>,
                  <<"1", "0", ".", "2", "5">> >>

ExampleInput ==
    /\ Len(argv) >= 2
    /\ argv[2] = <<"0", ".", "1">>
    /\ DataLines = ExampleData
    /\ ValidInput

C3_Original == (LoopLeft /\ Called /\ N = 1) => pc # "failed"

(***************************************************************************)
(* C3 amended: with exactly one line in the data section parse_logfile     *)
(* never returns: it fails with IndexError when it normalises the empty x  *)
(* array, and latency.png is not written.                                  *)
(***************************************************************************)
C3_OneLineFails ==
    (LoopLeft /\ Called /\ N = 1) =>
        /\ ~Returned
        /\ pc \notin {"scale", "return", "plot", "save", "done"}
        /\ pc = "failed" => err = "IndexError" /\ x = <<>> /\ y = <<>>
        /\ png = OldPng

C3_Witness ==
    /\ pc = "failed"
    /\ Called
    /\ N = 1
    /\ IsNumeric(DataLines[1])
    /\ pc = "failed"
    /\ err = "IndexError"
    /\ timestamps = <<>>
    /\ x = <<>>

(***************************************************************************)
(* C4 as stated: whenever a line of the data section is not a number, for  *)
(* any N >= 1, parse_logfile fails with a ValueError and returns nothing.  *)
(***************************************************************************)
HasBadLine == \E j \in 1..N : ~IsNumeric(DataLines[j])

C4_Original ==
    (LoopLeft /\ Called /\ N >= 1 /\ HasBadLine) =>
        /\ ~Returned
        /\ pc = "failed" => err = "ValueError"

(***************************************************************************)
(* C4 amended: whenever a line of the data section is not a number,        *)
(* parse_logfile returns nothing; for N >= 2 it fails with a ValueError,   *)
(* for N = 1 (the only line is never converted) with an IndexError.        *)
(***************************************************************************)
C4_BadLineFails ==
    (LoopLeft /\ Called /\ N >= 1 /\ HasBadLine) =>
        /\ ~Returned
        /\ pc \notin {"asarray", "normalize", "scale", "return", "plot", "save", "done"}
              \/ N = 1
        /\ pc = "failed" => err = (IF N >= 2 THEN "ValueError" ELSE "IndexError")

C4_Witness ==
    /\ pc = "failed"
    /\ Called
    /\ N = 3
    /\ ~IsNumeric(DataLines[1])
    /\ IsNumeric(DataLines[2])
    /\ IsNumeric(DataLines[3])
    /\ pc = "failed"
    /\ err = "ValueError"

(***************************************************************************)
(* C5: with no data line after the 6 header lines (with or without a       *)
(* newline after the header, or fewer lines) parse_logfile fails with      *)
(* IndexError, at the split or at the pop, and returns nothing.            *)
(***************************************************************************)
C5_NoDataFails ==
    (LoopLeft /\ Called /\ N = 0) =>
        /\ ~Returned
        /\ pc \notin {"asarray", "normalize", "scale", "return", "plot", "save", "done"}
        /\ pc = "failed" => err = "IndexError"

C5_Witness ==
    /\ pc = "failed"
    /\ Called
    /\ N = 0
    /\ Len(AllLines) = HeaderLines
    /\ logfile.content[Len(logfile.content)] = NL
    /\ pc = "failed"
    /\ err = "IndexError"
    /\ i = 1

C7_Original == Returned => \A j \in 1..Len(ret.y) : FGeZero(ret.y[j])

(***************************************************************************)
(* C7 amended: no element of the returned y is negative: each is >= 0 or   *)
(* nan, and it is >= 0 whenever the reference timestamp, the sample's      *)
(* timestamp and cycle_time are all finite (cycle_time zero or negative    *)
(* included).                                                              *)
(***************************************************************************)
C7_NonNegative ==
    (Returned /\ Called) =>
        \A j \in 1..Len(ret.y) :
            /\ FGeZero(ret.y[j]) \/ ret.y[j] = NaN
            /\ (FIsFinite(Actual(0)) /\ FIsFinite(Actual(j)) /\ FIsFinite(Cycle))
                  => FGeZero(ret.y[j])

C7_Witness ==
    /\ Returned
    /\ Called
    /\ \E j \in 1..Len(ret.y) :
          /\ FIsFinite(Actual(j))
          /\ FIsFinite(Expected(j))
          /\ Actual(j).v < Expected(j).v
          /\ Cycle.v < 0
          /\ ret.y[j].k = "fin"
          /\ ret.y[j].v > 0

(***************************************************************************)
(* C8 as stated: if actual[i] == actual[0] + cycle_time * i for every i in *)
(* 0..N-1 then every element of the returned y is 0.                       *)
(***************************************************************************)
OnSchedule == \A idx \in 0..(N - 1) : FEq(Actual(idx), Expected(idx))

C8_Original ==
    (Returned /\ Called /\ OnSchedule) => \A j \in 1..Len(ret.y) : FIsZero(ret.y[j])

(***************************************************************************)
(* C8 amended: if every timestamp is finite and lies exactly on the        *)
(* schedule actual[0] + cycle_time * i, every element of the returned y    *)
(* is 0.                                                                   *)
(***************************************************************************)
AllFinite == \A idx \in 0..(N - 1) : FIsFinite(Actual(idx))

C8_OnScheduleZero ==
    (Returned /\ Called /\ OnSchedule /\ AllFinite) =>
        /\ Len(ret.y) = N - 1
        /\ \A j \in 1..Len(ret.y) : FIsZero(ret.y[j])

C8_Witness ==
    /\ Returned
    /\ Called
    /\ OnSchedule
    /\ AllFinite
    /\ N = 3
    /\ Cycle.v > 0
    /\ ret.y = <<Fin(0), Fin(0)>>

(***************************************************************************)
(* C9: a second call of parse_logfile on the same file content with the    *)
(* same cycle_time ends as the first did (the same arrays or the same      *)
(* exception), and no step of parse_logfile changes the log file or        *)
(* latency.png.                                                            *)
(***************************************************************************)
SecondCallEnded == calls = 2 /\ (pc = "failed" \/ Returned)

C9_ReadOnly == pc \in ParsePcs => (logfile' = logfile /\ png' = png /\ saves' = saves)

C9_Deterministic == [](SecondCallEnded => Outcome = prev) /\ [][C9_ReadOnly]_vars

C9_Witness ==
    /\ calls = 2
    /\ Returned
    /\ Len(ret.y) = 2
    /\ prev.ok
    /\ Outcome = prev

(***************************************************************************)
(* C10: the run goes main -> open/read -> parse -> render -> save; a       *)
(* failure at any step ends it before any later step; latency.png is       *)
(* written only after parse_logfile has returned, at most once, and a      *)
(* failing run leaves it as it was.                                        *)
(***************************************************************************)
Rank(p) ==
    CASE p = "main" -> 0 [] p = "open" -> 1 [] p = "split" -> 2 [] p = "loop" -> 3
      [] p = "asarray" -> 4 [] p = "normalize" -> 5 [] p = "scale" -> 6
      [] p = "return" -> 7 [] p = "plot" -> 8 [] p = "save" -> 9 [] p = "done" -> 10
      [] p = "failed" -> 11

C10_State ==
    /\ saves <= 1
    /\ png.written => (Returned /\ pc = "done" /\ saves = 1 /\ png.x = ret.x /\ png.y = ret.y)
    /\ pc = "failed" => (png = OldPng /\ saves = 0 /\ ~Returned /\ ~figure.ok)
    /\ Len(argv) < 2 => (calls = 0 /\ pc \in {"main", "failed"})
    /\ ~logfile.readable => pc \in {"main", "open", "failed"}
    /\ pc \in {"plot", "save", "done"} <=> Returned

C10_Step ==
    /\ pc # "failed"
    /\ pc' = "failed" \/ Rank(pc') = Rank(pc) + 1 \/ (pc = "loop" /\ pc' = "loop")
    /\ png' # png => (pc = "save" /\ Returned)

C10_Sequential == [](C10_State) /\ [][C10_Step]_vars

C10_Witness ==
    /\ pc = "done"
    /\ saves = 1
    /\ png.written
    /\ Len(png.y) = 2
    /\ png.y = ret.y

=============================================================================
